---- MODULE Spec2Model ----
(***************************************************************************)
(* A state-machine model of the pass_manager secret store: the Manager of  *)
(* src/src/manager.rs, src/src/store.rs and src/src/user.rs working on a   *)
(* git repository that holds the Store blob and the User Record blob.      *)
(*                                                                         *)
(* Strings that end up in commit messages are sequences of space-free      *)
(* words: joining with ' ' and splitting on ' ' are then concatenation and *)
(* the identity on word sequences, so a label with a space in it spreads   *)
(* over several tokens of the message exactly as in the program.           *)
(* An Option<T> is a sequence of length 0 (None) or 1 (Some).              *)
(* rand::random() yields a value that was never drawn before: the model    *)
(* numbers the draws (96 and 128 random bits do not collide in practice).  *)
(***************************************************************************)
EXTENDS Integers, Sequences, FiniteSets, TLC

VARIABLES
    phase,        \* "uninit" | "closed" | "open" | "done": where the invocation is
    store,        \* Manager.store : Store {key, nonce, salt, items}
    user,         \* Manager.user : User {name, email, remote}
    user_nonce,   \* Manager.user_nonce
    key_aes,      \* Manager.key_aes: the cipher of the passphrase-derived key
    store_aes,    \* Manager.store_aes: the cipher of the master key
    fs_dirty,     \* Manager.fs_dirty
    store_file,   \* data_dir/pm_store.bin (Option of the bytes)
    user_file,    \* data_dir/user.bin (Option of the bytes)
    commits,      \* the repository's commits, a commit's id is its index
    head,         \* the commit HEAD points to, 0 when there is no repository
    origin,       \* the url of the repository's remote "origin" (Option)
    remote_main,  \* the commit refs/heads/main of the remote points to (0: none)
    rand,         \* the number of values rand::random() has produced
    cmd,          \* the dispatched command of this invocation
    result,       \* how the dispatched operation ended: "ok" | "err" | "panic" | "-"
    last,         \* history variable: what the last step did, the passphrase it
                  \* handed to Argon2 and the encrypt calls it made
    rekeyed,      \* history variable: the rekey the store in memory carries (Option)
    file_rekeyed  \* history variable: the rekey pm_store.bin carries (Option)

vars == << phase, store, user, user_nonce, key_aes, store_aes, fs_dirty, store_file,
           user_file, commits, head, origin, remote_main, rand, cmd, result, last, rekeyed,
           file_rekeyed >>

manager == << store, user, user_nonce, key_aes, store_aes, fs_dirty, rekeyed >>
disk == << store_file, user_file, commits, head >>

----------------------------------------------------------------------------
(* Bounds of the model and the values the inputs are drawn from. *)

\* operations run while the history has fewer than MaxCommits commits (an undo
\* may still follow the last of them), and draw at most MaxRand random values
MaxCommits == 4
MaxRand == 7

Labels == { <<"github">>, <<"my", "bank">> }
Passwords == { "hunter2hunter2", "Tr0ub4dor&3" }
Passphrases == { "correcthorse", "batterystaple", "short" }
Names == { "bob" }
Emails == { "alice@example.org" }
Urls == { "https://git.example.org/pm.git" }

None == << >>
Some(x) == << x >>
IsSome(o) == Len(o) = 1
Unwrap(o) == o[1]

EmptyItems == [ l \in {} |-> 0 ]
Insert(map, k, v) == [ x \in (DOMAIN map) \cup {k} |-> IF x = k THEN v ELSE map[x] ]
Remove(map, k) == [ x \in (DOMAIN map) \ {k} |-> map[x] ]

----------------------------------------------------------------------------
(* The Crypto Vault: Argon2 and AES-256-GCM as the program uses them. *)

\* Argon2::default().hash_password_into(key, salt, out): a deterministic key
Argon2(passphrase, salt) == << "argon2", passphrase, salt >>

\* a key of 32 random bytes, the n-th value drawn
RandomKey(n) == << "random", n >>

\* Aes256Gcm::encrypt(nonce, plaintext) under `key`
Encrypt(key, nonce, plaintext) == [ k |-> key, n |-> nonce, p |-> plaintext ]

\* Aes256Gcm::decrypt(nonce, ciphertext) under `key` authenticates: it is Ok
\* only with the key and the nonce the ciphertext was made with
DecryptOk(key, nonce, ciphertext) == ciphertext.k = key /\ ciphertext.n = nonce
Decrypt(key, nonce, ciphertext) == ciphertext.p

\* the length policy of every prompt that validates
length_validator(inp) == Len(inp) >= 8

----------------------------------------------------------------------------
(* Store and User: their constructors and their (de)serialisation. *)

Item(nonce, password) == [ nonce |-> nonce, password |-> password ]

StoreNew(key, salt, nonce) == [ key |-> key, nonce |-> nonce, salt |-> salt, items |-> EmptyItems ]

UserNew(name, email) == [ name |-> name, email |-> email, remote |-> None ]

\* rkyv::to_bytes / rkyv::from_bytes::<T>: the archive of a value of type T
ToBytes(type, value) == [ rkyv |-> type, value |-> value ]
FromBytesOk(type, bytes) == bytes.rkyv = type
FromBytes(bytes) == bytes.value

\* Store::save writes the archive of the store
StoreBytes(s) == ToBytes("Store", s)

\* User::save writes nonce || encrypt(nonce, archive of the user)
UserBytes(u, cipher, nonce) == [ nonce |-> nonce, ct |-> Encrypt(cipher, nonce, ToBytes("User", u)) ]

\* User::open: split_at(12), decrypt, from_bytes
UserOpenOk(bytes, cipher) == DecryptOk(cipher, bytes.nonce, bytes.ct)
UserOpen(bytes, cipher) == FromBytes(Decrypt(cipher, bytes.nonce, bytes.ct))

NoStore == StoreNew(None, 0, 0)
NoUser == UserNew("", "")
NoCmd == [ op |-> "-", message |-> << >> ]
NoLast == [ op |-> "-", res |-> "-", kdf |-> << >>, enc |-> {} ]

\* whether the installation already holds a ciphertext made under `key` with
\* `nonce`: an item in memory, in pm_store.bin or in a commit's Store blob, or
\* the User Record of user.bin or of a commit
HoldsItem(s, key, nonce) ==
    \E l \in DOMAIN s.items : s.items[l].password.k = key /\ s.items[l].password.n = nonce
HoldsUser(bytes, key, nonce) == bytes.ct.k = key /\ bytes.ct.n = nonce
NonceInUse(key, nonce) ==
    \/ HoldsItem(store, key, nonce)
    \/ IsSome(store_file) /\ HoldsItem(FromBytes(Unwrap(store_file)), key, nonce)
    \/ IsSome(user_file) /\ HoldsUser(Unwrap(user_file), key, nonce)
    \/ \E i \in 1..Len(commits) :
          \/ HoldsItem(FromBytes(commits[i].tree.store), key, nonce)
          \/ HoldsUser(commits[i].tree.user, key, nonce)

\* the record of one encrypt call under `key` with `nonce`: whether the nonce
\* was drawn by rand::random() for this call (it is one of the draws the step
\* makes), and whether a ciphertext under the same key and nonce exists already
EncCall(key, nonce, drawn) ==
    [ key |-> key, nonce |-> nonce, fresh |-> nonce \in drawn,
      seen |-> NonceInUse(key, nonce) ]

----------------------------------------------------------------------------
Init ==
    /\ phase = "uninit"
    /\ store = NoStore
    /\ user = NoUser
    /\ user_nonce = 0
    /\ key_aes = None
    /\ store_aes = None
    /\ fs_dirty = FALSE
    /\ store_file = None
    /\ user_file = None
    /\ commits = << >>
    /\ head = 0
    /\ origin = None
    /\ remote_main = 0
    /\ rand = 0
    /\ cmd = NoCmd
    /\ result = "-"
    /\ last = NoLast
    /\ rekeyed = None
    /\ file_rekeyed = None

\* no installation and no manager: the state in which a function of the
\* program that needs neither is called
Blank ==
    /\ store = NoStore /\ user = NoUser /\ user_nonce = 0
    /\ key_aes = None /\ store_aes = None /\ fs_dirty = FALSE
    /\ store_file = None /\ user_file = None
    /\ commits = << >> /\ head = 0 /\ origin = None /\ remote_main = 0
    /\ rand = 0 /\ rekeyed = None /\ file_rekeyed = None

----------------------------------------------------------------------------
(* The external collaborators: the url parser and the credential helper. *)

\* Url::parse(remote) and url.host(): the host of a well-formed url
UrlParseOk(remote) == remote \in Urls
UrlHost(remote) == "git.example.org"

\* `git credential fill`: what the helper printed, as the set of keys it gave
HelperOutputs == { {"username", "password"}, {"password"} }
Credentials == [ username |-> "git-user", password |-> "git-token" ]

\* get_remote_credentials (user.rs): Ok only with both keys
get_remote_credentials_ok(keys) == "username" \in keys /\ "password" \in keys

\* User::set_remote(remote, creds_required): the new Option<Remote>
SetRemoteOk(u, remote, creds_required, keys) ==
    \/ remote = "-"
    \/ /\ UrlParseOk(remote)
       /\ LET need == IF IsSome(creds_required) THEN Unwrap(creds_required)
                      ELSE IsSome(u.remote) /\ IsSome(Unwrap(u.remote).creds)
          IN  need => get_remote_credentials_ok(keys)

SetRemote(u, remote, creds_required) ==
    IF remote = "-" THEN None
    ELSE LET need == IF IsSome(creds_required) THEN Unwrap(creds_required)
                     ELSE IsSome(u.remote) /\ IsSome(Unwrap(u.remote).creds)
         IN  Some([ host |-> UrlHost(remote), url |-> remote,
                    creds |-> IF need THEN Some(Credentials) ELSE None ])

----------------------------------------------------------------------------
(* The repository. *)

Commit(parents, message, store_bytes, user_bytes) ==
    [ parents |-> parents, message |-> message,
      tree |-> [ store |-> store_bytes, user |-> user_bytes ] ]

\* set_repo: the root commit of the two files on disk
RootCommit(store_bytes, user_bytes) ==
    Commit(<< >>, << "store", "initialize" >>, store_bytes, user_bytes)

\* the manager of a process that is not running
Dropped ==
    /\ store' = NoStore
    /\ user' = NoUser
    /\ user_nonce' = 0
    /\ key_aes' = None
    /\ store_aes' = None
    /\ fs_dirty' = FALSE
    /\ rekeyed' = None
    /\ cmd' = NoCmd
    /\ result' = "-"

\* what a step did: the operation, how it ended, the passphrase it handed to
\* Argon2 (Option) and the encrypt calls it made
Step(op, res, kdf, enc) == [ op |-> op, res |-> res, kdf |-> kdf, enc |-> enc ]

----------------------------------------------------------------------------
(* Manager::init: the first run, data_dir does not exist. *)

\* the passphrases the "Enter new key" prompt of init lets through: it has a
\* confirmation and no validator
InitAccepts(user_key) == TRUE

ManagerInit(user_key, name, email, remote, needs_creds, keys, use_remote_data) ==
    /\ phase = "uninit"
    /\ InitAccepts(user_key)
    /\ LET salt == rand + 1
           derived_key == Argon2(user_key, salt)
           key == RandomKey(rand + 2)
           nonce_slice == rand + 3
           encrypted_key == Encrypt(derived_key, nonce_slice, key)
           user0 == UserNew(name, email)
           store0 == StoreNew(encrypted_key, salt, nonce_slice)
           unonce == rand + 4
           user_bytes == UserBytes(user0, key, unonce)
           store_bytes == StoreBytes(store0)
           \* the validator of the "Enter remote url" prompt parses the url and
           \* asks the helper whether or not credentials are needed; a url it
           \* refuses is asked for again until the run is given up
           url_ok == IsSome(remote) =>
                        UrlParseOk(Unwrap(remote)) /\ get_remote_credentials_ok(keys)
           set_remote_ok == /\ url_ok
                            /\ IsSome(remote) =>
                                  SetRemoteOk(user0, Unwrap(remote), Some(needs_creds), keys)
           helper == IF IsSome(remote) /\ UrlParseOk(Unwrap(remote)) THEN Some(keys)
                     ELSE None
           clone == IsSome(remote) /\ use_remote_data
           user1 == IF IsSome(remote)
                    THEN [ user0 EXCEPT !.remote = SetRemote(user0, Unwrap(remote), Some(needs_creds)) ]
                    ELSE user0
           drawn == (rand + 1)..(rand + 4)
           calls == { EncCall(derived_key, nonce_slice, drawn), EncCall(key, unonce, drawn) }
       IN  /\ rand' = rand + 4
           \* create_dir, user.save, store.save happen before the remote is asked for
           /\ user_file' = Some(user_bytes)
           /\ store_file' = Some(store_bytes)
           /\ file_rekeyed' = None
           /\ IF set_remote_ok /\ ~clone
              THEN /\ commits' = << RootCommit(store_bytes, user_bytes) >>
                   /\ head' = 1
                   /\ origin' = IF IsSome(remote) THEN remote ELSE None
                   /\ remote_main' = remote_main
                   /\ store' = store0
                   /\ user' = user1
                   /\ user_nonce' = unonce
                   /\ key_aes' = Some(derived_key)
                   /\ store_aes' = key
                   /\ fs_dirty' = FALSE
                   /\ rekeyed' = None
                   /\ phase' = "open"
                   /\ last' = Step("init", "ok", Some(user_key), calls)
                              @@ [ helper |-> helper ]
                   /\ UNCHANGED << cmd, result >>
              ELSE \* no url was accepted, or Repository::clone into the directory
                   \* that already holds the two files failed: no repository
                   /\ Dropped
                   /\ phase' = "closed"
                   /\ last' = Step("init", "err", Some(user_key), calls)
                              @@ [ helper |-> helper ]
                   /\ UNCHANGED << commits, head, origin, remote_main >>

----------------------------------------------------------------------------
(* Manager::new: unlocking an installation. *)

ManagerNew(key) ==
    /\ phase = "closed"
    /\ IsSome(store_file)
    /\ FromBytesOk("Store", Unwrap(store_file))
    /\ LET st == FromBytes(Unwrap(store_file))
           derived_key == Argon2(key, st.salt)
           unwrap_ok == DecryptOk(derived_key, st.nonce, st.key)
           master == Decrypt(derived_key, st.nonce, st.key)
           repo_ok == head # 0
           user_ok == IsSome(user_file) /\ UserOpenOk(Unwrap(user_file), master)
       IN  IF ~length_validator(key)
           THEN \* the prompt refuses the input and asks again
                /\ last' = Step("new", "rejected", None, {}) @@ [ key |-> key ]
                /\ UNCHANGED << manager, disk, origin, remote_main, rand, cmd, result, phase, file_rekeyed >>
           ELSE /\ UNCHANGED << disk, origin, remote_main, rand, cmd, result, file_rekeyed >>
                /\ IF unwrap_ok /\ repo_ok /\ user_ok
                   THEN /\ store' = st
                        /\ store_aes' = master
                        /\ key_aes' = Some(derived_key)
                        /\ user' = UserOpen(Unwrap(user_file), master)
                        /\ user_nonce' = Unwrap(user_file).nonce
                        /\ fs_dirty' = FALSE
                        /\ rekeyed' = None
                        /\ phase' = "open"
                        /\ last' = Step("new", "ok", Some(key), {}) @@ [ key |-> key ]
                   ELSE /\ last' = Step("new", "err", Some(key), {}) @@ [ key |-> key ]
                        /\ UNCHANGED << manager, phase >>

----------------------------------------------------------------------------
(* The dispatcher: one command per invocation, and the commit message the  *)
(* save of that invocation carries, "<area> <action>[ <value>]".           *)

\* the comma-joined list of the user fields a `user set` command names
JoinFields(fields) ==
    CASE fields = << "name" >> -> "name"
      [] fields = << "email" >> -> "email"
      [] fields = << "remote" >> -> "remote"
      [] fields = << "name", "email" >> -> "name,email"
      [] fields = << "name", "remote" >> -> "name,remote"
      [] fields = << "email", "remote" >> -> "email,remote"
      [] fields = << "name", "email", "remote" >> -> "name,email,remote"
      [] OTHER -> ""

DispatchMessage(op, value) ==
    CASE op = "add" -> << "store", "add" >> \o value
      [] op = "delete" -> << "store", "delete" >> \o value
      [] op = "reset" -> << "store", "reset" >>
      [] op = "modify" -> << "store", "modify" >>
      [] op = "set_user" -> << "user", "set", JoinFields(value) >>
      [] op = "undo" -> << "store", "undo" >>
      [] OTHER -> << "store", op >>

Dispatched(op, value, res) ==
    /\ cmd' = [ op |-> op, message |-> DispatchMessage(op, value) ]
    /\ result' = res
    /\ phase' = "done"

----------------------------------------------------------------------------
(* Manager::add *)

\* an add that inserts without looking at the confirmation
AddItemsAlways(items, label, item, overwrite, answer) == Insert(items, label, item)

\* an add that asks even when overwrite is set
AddItemsIgnoresOverwrite(items, label, item, overwrite, answer) ==
    IF label \notin DOMAIN items \/ answer THEN Insert(items, label, item) ELSE items

\* the Entry match: a vacant label is filled, an occupied one only when
\* overwrite is set or the user says yes to "Do you want to modify?"
AddItems(items, label, item, overwrite, answer) ==
    IF label \notin DOMAIN items THEN Insert(items, label, item)
    ELSE IF overwrite \/ answer THEN Insert(items, label, item)
    ELSE items

\* whether add asks "Do you want to modify?"
AddAsks(items, label, overwrite) == label \in DOMAIN items /\ ~overwrite

\* fs_dirty after add: set on every path that returns Ok
AddDirty(items, label, overwrite, answer) == TRUE

Add(label, password, overwrite, answer) ==
    /\ phase = "open"
    /\ Len(commits) < MaxCommits
    /\ rand < MaxRand
    /\ LET nonce_slice == rand + 1
           ciphertext == Encrypt(store_aes, nonce_slice, password)
       IN  /\ rand' = rand + 1
           /\ store' = [ store EXCEPT !.items =
                           AddItems(store.items, label, Item(nonce_slice, ciphertext),
                                    overwrite, answer) ]
           /\ fs_dirty' = ( fs_dirty \/ AddDirty(store.items, label, overwrite, answer) )
           /\ last' = Step("add", "ok", None, { EncCall(store_aes, nonce_slice, { rand + 1 }) })
                      @@ [ label |-> label, password |-> password, overwrite |-> overwrite,
                           asked |-> AddAsks(store.items, label, overwrite),
                           answer |-> answer, present |-> label \in DOMAIN store.items ]
    /\ Dispatched("add", label, "ok")
    /\ UNCHANGED << user, user_nonce, key_aes, store_aes, rekeyed, disk, origin, remote_main, file_rekeyed >>

----------------------------------------------------------------------------
(* Manager::delete *)

\* a delete that removes nothing
DeleteItemsKeeps(items, label) == items

DeleteItems(items, label) == Remove(items, label)

\* fs_dirty after delete
DeleteDirty(items, label) == TRUE

Delete(label) ==
    /\ phase = "open"
    /\ Len(commits) < MaxCommits
    /\ store' = [ store EXCEPT !.items = DeleteItems(store.items, label) ]
    /\ fs_dirty' = ( fs_dirty \/ DeleteDirty(store.items, label) )
    /\ last' = Step("delete", "ok", None, {})
               @@ [ label |-> label, present |-> label \in DOMAIN store.items ]
    /\ Dispatched("delete", label, "ok")
    /\ UNCHANGED << user, user_nonce, key_aes, store_aes, rekeyed, disk, origin, remote_main, rand,
                    file_rekeyed >>

----------------------------------------------------------------------------
(* Manager::copy and Manager::list *)

\* a table that stops after its first row
ListRowsFirst(items, cipher) ==
    IF items = EmptyItems THEN {}
    ELSE LET l == CHOOSE x \in DOMAIN items : TRUE
         IN  { << l, Decrypt(cipher, items[l].nonce, items[l].password) >> }

\* the rows of the table: every label with the plaintext of its item
ListRows(items, cipher) ==
    { << l, Decrypt(cipher, items[l].nonce, items[l].password) >> : l \in DOMAIN items }

\* whether every item decrypts under the cipher
ListOk(items, cipher) ==
    \A l \in DOMAIN items : DecryptOk(cipher, items[l].nonce, items[l].password)

\* copy: "No item found in store" for an absent label; else decrypt the item
\* and hand the plaintext to the clipboard, which may fail
Copy(label, clipboard_ok) ==
    /\ phase = "open"
    /\ LET found == label \in DOMAIN store.items
           item == store.items[label]
           ok == found => ( /\ DecryptOk(store_aes, item.nonce, item.password)
                            /\ clipboard_ok )
       IN  /\ last' = Step("copy", IF ok THEN "ok" ELSE "err", None, {})
                      @@ [ label |-> label, found |-> found,
                           clipboard |-> IF found /\ ok
                                         THEN Some(Decrypt(store_aes, item.nonce, item.password))
                                         ELSE None ]
           /\ Dispatched("copy", label, IF ok THEN "ok" ELSE "err")
    /\ UNCHANGED << manager, disk, origin, remote_main, rand, file_rekeyed >>

\* list: "Empty store" for an empty map; else one row per item
List ==
    /\ phase = "open"
    /\ LET ok == ListOk(store.items, store_aes)
       IN  /\ last' = Step("list", IF ok THEN "ok" ELSE "err", None, {})
                      @@ [ empty |-> store.items = EmptyItems,
                           rows |-> IF ok THEN ListRows(store.items, store_aes) ELSE {} ]
           /\ Dispatched("list", << >>, IF ok THEN "ok" ELSE "err")
    /\ UNCHANGED << manager, disk, origin, remote_main, rand, file_rekeyed >>

----------------------------------------------------------------------------
(* Manager::reset *)

ResetItems(items, answer) == IF answer THEN EmptyItems ELSE items

Reset(answer) ==
    /\ phase = "open"
    /\ Len(commits) < MaxCommits
    /\ store' = [ store EXCEPT !.items = ResetItems(store.items, answer) ]
    /\ fs_dirty' = TRUE
    /\ last' = Step("reset", "ok", None, {}) @@ [ answer |-> answer ]
    /\ Dispatched("reset", << >>, "ok")
    /\ UNCHANGED << user, user_nonce, key_aes, store_aes, rekeyed, disk, origin, remote_main, rand,
                    file_rekeyed >>

----------------------------------------------------------------------------
(* Manager::modify: the rekey *)

\* a rekey that derives the new wrapping key with the new salt and keeps the
\* old salt in the store
RewrapKeepsSalt(st, derived, new_key, new_salt, new_nonce) ==
    LET enc_key == Decrypt(derived, st.nonce, st.key)
        new_cipher_key == Argon2(new_key, new_salt)
    IN  [ st EXCEPT !.nonce = new_nonce,
                    !.key = Encrypt(new_cipher_key, new_nonce, enc_key) ]

\* the store with its master key wrapped under the new passphrase
Rewrap(st, derived, new_key, new_salt, new_nonce) ==
    LET enc_key == Decrypt(derived, st.nonce, st.key)
        new_cipher_key == Argon2(new_key, new_salt)
    IN  [ st EXCEPT !.nonce = new_nonce, !.salt = new_salt,
                    !.key = Encrypt(new_cipher_key, new_nonce, enc_key) ]

\* what list would show: the plaintext of every item under `cipher`
Plaintexts(items, cipher) ==
    [ l \in DOMAIN items |->
        IF DecryptOk(cipher, items[l].nonce, items[l].password)
        THEN Some(Decrypt(cipher, items[l].nonce, items[l].password))
        ELSE None ]

Modify(new_key) ==
    /\ phase = "open"
    /\ Len(commits) < MaxCommits
    /\ rand + 1 < MaxRand
    /\ IF ~length_validator(new_key)
       THEN \* the prompt refuses the input and asks again
            /\ last' = Step("modify", "rejected", None, {})
            /\ UNCHANGED << manager, disk, origin, remote_main, rand, cmd, result, phase, file_rekeyed >>
       ELSE LET new_salt == rand + 1
                new_nonce == rand + 2
            IN  /\ DecryptOk(Unwrap(key_aes), store.nonce, store.key)
                /\ rand' = rand + 2
                /\ store' = Rewrap(store, Unwrap(key_aes), new_key, new_salt, new_nonce)
                /\ fs_dirty' = TRUE
                /\ rekeyed' = Some([ pass |-> new_key,
                                     plain |-> Plaintexts(store.items, store_aes) ])
                /\ last' = Step("modify", "ok", Some(new_key),
                                { EncCall(Argon2(new_key, new_salt), new_nonce,
                                          { rand + 1, rand + 2 }) })
                /\ Dispatched("modify", << >>, "ok")
                /\ UNCHANGED << user, user_nonce, key_aes, store_aes, disk, origin, remote_main,
                                file_rekeyed >>

----------------------------------------------------------------------------
(* Manager::set_user *)

\* a set_user that never removes the registration
SetUserOriginKeeps(org, remote) ==
    IF ~IsSome(remote) \/ Unwrap(remote) = "-" THEN org ELSE remote

\* the "origin" registration after the remote branch of set_user
SetUserOrigin(org, remote) ==
    IF ~IsSome(remote) THEN org
    ELSE IF Unwrap(remote) = "-" THEN None
    ELSE remote

\* the names of the fields the command gave, in the order name, email, remote
GivenFields(name, email, remote) ==
    (IF IsSome(name) THEN << "name" >> ELSE << >>)
    \o (IF IsSome(email) THEN << "email" >> ELSE << >>)
    \o (IF IsSome(remote) THEN << "remote" >> ELSE << >>)

\* whether set_remote asks the credential helper
SetRemoteNeedsCreds(u, creds_required) ==
    IF IsSome(creds_required) THEN Unwrap(creds_required)
    ELSE IsSome(u.remote) /\ IsSome(Unwrap(u.remote).creds)

\* what the helper gave set_remote (Option): asked only for a well-formed
\* url and when credentials are needed
SetRemoteHelper(u, remote, creds_required, keys) ==
    IF /\ IsSome(remote)
       /\ Unwrap(remote) # "-"
       /\ UrlParseOk(Unwrap(remote))
       /\ SetRemoteNeedsCreds(u, creds_required)
    THEN Some(keys) ELSE None

SetUser(name, email, remote, creds_required, keys) ==
    /\ phase = "open"
    /\ Len(commits) < MaxCommits
    /\ LET user1 == [ user EXCEPT !.name = IF IsSome(name) THEN Unwrap(name) ELSE @,
                                  !.email = IF IsSome(email) THEN Unwrap(email) ELSE @ ]
           ok == IsSome(remote) => SetRemoteOk(user1, Unwrap(remote), creds_required, keys)
           user2 == IF IsSome(remote)
                    THEN [ user1 EXCEPT !.remote = SetRemote(user1, Unwrap(remote), creds_required) ]
                    ELSE user1
           given == [ given |-> [ name |-> name, email |-> email, remote |-> remote ],
                      helper |-> SetRemoteHelper(user1, remote, creds_required, keys) ]
       IN  /\ origin' = SetUserOrigin(origin, remote)
           /\ remote_main' = remote_main
           /\ IF ok
              THEN /\ user' = user2
                   /\ fs_dirty' = TRUE
                   /\ last' = Step("set_user", "ok", None, {}) @@ given
                   /\ Dispatched("set_user", GivenFields(name, email, remote), "ok")
              ELSE /\ user' = user1
                   /\ fs_dirty' = fs_dirty
                   /\ last' = Step("set_user", "err", None, {}) @@ given
                   /\ Dispatched("set_user", GivenFields(name, email, remote), "err")
    /\ UNCHANGED << store, user_nonce, key_aes, store_aes, rekeyed, disk, rand, file_rekeyed >>

----------------------------------------------------------------------------
(* Manager::undo *)

\* parse_commit_message: split on ' ', and a third part "-" for a message of two
parse_commit_message(message) ==
    IF Len(message) = 2 THEN Append(message, "-") ELSE message

\* the fields a comma-joined list names: parts[2].split(',')
SplitFields(value) ==
    CASE value = "name" -> << "name" >>
      [] value = "email" -> << "email" >>
      [] value = "remote" -> << "remote" >>
      [] value = "name,email" -> << "name", "email" >>
      [] value = "name,remote" -> << "name", "remote" >>
      [] value = "email,remote" -> << "email", "remote" >>
      [] value = "name,email,remote" -> << "name", "email", "remote" >>
      [] OTHER -> << value >>

Has(fields, f) == \E i \in 1..Len(fields) : fields[i] = f

\* an undo of `user set` that takes the whole record of the parent commit
UndoUserWhole(u, old_user, fields) == old_user

\* the user after the loop over the fields of a `user set` commit
UndoUser(u, old_user, fields) ==
    [ name |-> IF Has(fields, "name") THEN old_user.name ELSE u.name,
      email |-> IF Has(fields, "email") THEN old_user.email ELSE u.email,
      remote |-> IF Has(fields, "remote") THEN old_user.remote ELSE u.remote ]

\* how undo of the commit with these parts ends: "ok", "err" (a typed error)
\* or "panic" (an index out of bounds, a missing key)
UndoResult(parts, has_parent, old_items, old_user_ok) ==
    IF parts[1] \notin { "store", "user" } THEN "err"
    ELSE IF Len(parts) < 2 THEN "panic"
    ELSE IF parts[1] = "store"
    THEN CASE parts[2] = "add" -> "ok"
           [] parts[2] \in { "delete", "reset" } ->
                 IF ~has_parent THEN "err"
                 ELSE IF parts[2] = "delete" /\ << parts[3] >> \notin DOMAIN old_items
                 THEN "panic"
                 ELSE "ok"
           [] parts[2] = "modify" -> "ok"
           [] OTHER -> "err"
    ELSE CASE parts[2] = "set" ->
                 IF ~has_parent \/ ~old_user_ok THEN "err" ELSE "ok"
           [] OTHER -> "err"

\* an undo whose `store add` arm restores nothing
UndoItemsKeepsAdded(items, parts, old_items) ==
    CASE parts[2] = "delete" -> Insert(items, << parts[3] >>, old_items[<< parts[3] >>])
      [] parts[2] = "reset" -> old_items
      [] OTHER -> items

\* an undo whose `store delete` arm takes the whole parent map, as `reset` does
UndoItemsTakesParent(items, parts, old_items) ==
    CASE parts[2] = "add" -> Remove(items, << parts[3] >>)
      [] parts[2] \in { "delete", "reset" } -> old_items
      [] OTHER -> items

\* the item map after a successful undo of a store commit
UndoItems(items, parts, old_items) ==
    CASE parts[2] = "add" -> DeleteItems(items, << parts[3] >>)
      [] parts[2] = "delete" -> Insert(items, << parts[3] >>, old_items[<< parts[3] >>])
      [] parts[2] = "reset" -> old_items
      [] OTHER -> items

\* an undo that marks the manager dirty whatever it did
UndoDirtyAlways(dirty, parts) == TRUE

\* fs_dirty after a successful undo: only the `store add` arm, which calls
\* self.delete, sets it
UndoDirty(dirty, parts) ==
    IF parts[1] = "store" /\ parts[2] = "add" THEN TRUE ELSE dirty

Undo(id) ==
    /\ phase = "open"
    /\ Len(commits) <= MaxCommits
    /\ LET known == ~IsSome(id) \/ Unwrap(id) \in 1..Len(commits)
           target == IF IsSome(id) THEN Unwrap(id) ELSE head
       IN  IF ~known
           THEN /\ last' = Step("undo", "err", None, {}) @@ [ target |-> 0, parts |-> << >> ]
                /\ Dispatched("undo", << >>, "err")
                /\ UNCHANGED << manager, disk, origin, remote_main, rand, file_rekeyed >>
           ELSE LET commit == commits[target]
                    parts == parse_commit_message(commit.message)
                    has_parent == Len(commit.parents) > 0
                    parent == commits[commit.parents[1]]
                    old_items == IF has_parent THEN FromBytes(parent.tree.store).items
                                 ELSE EmptyItems
                    old_user_ok == has_parent /\ UserOpenOk(parent.tree.user, store_aes)
                    old_user == IF old_user_ok THEN UserOpen(parent.tree.user, store_aes)
                                ELSE user
                    res == UndoResult(parts, has_parent, old_items, old_user_ok)
                IN  /\ IF res = "ok"
                       THEN /\ store' = IF parts[1] = "store"
                                        THEN [ store EXCEPT !.items =
                                                  UndoItems(store.items, parts, old_items) ]
                                        ELSE store
                            /\ user' = IF parts[1] = "user"
                                       THEN UndoUser(user, old_user, SplitFields(parts[3]))
                                       ELSE user
                            /\ fs_dirty' = UndoDirty(fs_dirty, parts)
                       ELSE UNCHANGED << store, user, fs_dirty >>
                    /\ last' = Step("undo", res, None, {})
                               @@ [ target |-> target, parts |-> parts ]
                    /\ Dispatched("undo", << >>, res)
                    /\ UNCHANGED << user_nonce, key_aes, store_aes, rekeyed, disk, origin, remote_main,
                                    rand, file_rekeyed >>

\* the messages of commits the program did not write: the repository is an
\* ordinary one, and undo reads the message of whatever commit it is given
\* the message of a commit whose bytes are not UTF-8: commit.message() is None
NonUtf8 == << "<not utf-8>" >>

ForeignMessages ==
    { NonUtf8, << "" >>, << "store" >>, << "user" >>, << "bogus" >>,
      << "store", "frobnicate" >>, << "user", "rename", "bob" >>,
      << "config", "set", "remote" >> }

\* `git commit --allow-empty -m <message>` in the data directory
ForeignCommit(message) ==
    /\ phase = "closed"
    /\ head # 0
    /\ Len(commits) < MaxCommits
    /\ commits' = Append(commits,
                     Commit(<< head >>, message, commits[head].tree.store,
                            commits[head].tree.user))
    /\ head' = Len(commits) + 1
    /\ last' = Step("git", "ok", None, {})
    /\ UNCHANGED << manager, store_file, user_file, origin, remote_main, rand, phase, cmd,
                    result, file_rekeyed >>

----------------------------------------------------------------------------
(* Store::sync: push to and pull from the remote "origin".                 *)

\* the commits reachable from c through the parents, c included
RECURSIVE Ancestors(_)
Ancestors(c) ==
    { c } \cup UNION { Ancestors(commits[c].parents[i]) : i \in 1..Len(commits[c].parents) }

Max(S) == CHOOSE x \in S : \A y \in S : y <= x

\* repo.merge_base: the latest commit both histories hold
MergeBase(a, b) == Max(Ancestors(a) \cap Ancestors(b))

\* repo.merge_analysis of the fetched commit against HEAD
MergeAnalysis(local, fetched) ==
    IF fetched \in Ancestors(local) THEN "up_to_date"
    ELSE IF local \in Ancestors(fetched) THEN "fast_forward"
    ELSE "normal"

\* repo.merge_trees on one path of the three trees: the side that changed
\* wins, and two different changes of the same binary file are a conflict
MergeConflict(ancestor, ours, theirs) ==
    ours # theirs /\ ours # ancestor /\ theirs # ancestor
MergeBlob(ancestor, ours, theirs) == IF ours = ancestor THEN theirs ELSE ours

\* the message of the commit a normal merge makes
MergeMessage(fetched, local) == << "Merge:", ToString(fetched), "into", ToString(local) >>

\* the credentials callback of connect_auth, push and fetch: it runs when the
\* server asks for credentials and indexes the helper's map by both keys
CallbackResult(auth_required, keys) ==
    IF ~auth_required THEN "ok"
    ELSE IF "username" \in keys /\ "password" \in keys THEN "ok"
    ELSE "panic"

\* what a sync did, besides the fields of every step; `selected` is the set
\* of labels picked from a presented diff: sync presents none
SyncStep(res, dir, helper, analysis) ==
    Step("sync", res, None, {})
    @@ [ dir |-> dir, helper |-> helper, analysis |-> analysis,
         selected |-> {} ]

Sync(dir, auth_required, keys, net_ok, checkout_updates) ==
    /\ phase = "open"
    /\ Len(commits) <= MaxCommits
    /\ UNCHANGED << manager, origin, rand, file_rekeyed >>
    /\ Dispatched("sync", << dir >>,
                  IF ~IsSome(user.remote) THEN "ok"
                  ELSE IF ~IsSome(origin) \/ ~net_ok THEN "err"
                  ELSE IF CallbackResult(auth_required, keys) # "ok"
                  THEN CallbackResult(auth_required, keys)
                  ELSE IF dir = "push"
                  THEN IF remote_main = 0 \/ remote_main \in Ancestors(head) THEN "ok"
                       ELSE "err"
                  ELSE IF remote_main = 0 THEN "err" ELSE "ok")
    /\ LET helper == IF auth_required THEN Some(keys) ELSE None
           connected == /\ IsSome(user.remote)
                        /\ IsSome(origin)
                        /\ net_ok
                        /\ CallbackResult(auth_required, keys) = "ok"
       IN  IF ~IsSome(user.remote)
           THEN \* "Remote not set"
                /\ last' = SyncStep("ok", dir, None, "-")
                /\ UNCHANGED << disk, remote_main >>
           ELSE IF ~connected
           THEN /\ last' = SyncStep(IF IsSome(origin) /\ net_ok
                                    THEN CallbackResult(auth_required, keys) ELSE "err",
                                    dir, IF IsSome(origin) /\ net_ok THEN helper ELSE None, "-")
                /\ UNCHANGED << disk, remote_main >>
           ELSE IF dir = "push"
           THEN IF remote_main = 0 \/ remote_main \in Ancestors(head)
                THEN /\ remote_main' = head
                     /\ last' = SyncStep("ok", dir, helper, "-")
                     /\ UNCHANGED disk
                ELSE \* the remote holds commits HEAD does not: the push is refused
                     /\ last' = SyncStep("err", dir, helper, "-")
                     /\ UNCHANGED << disk, remote_main >>
           ELSE IF remote_main = 0
           THEN \* the remote has no branch main to fetch
                /\ last' = SyncStep("err", dir, helper, "-")
                /\ UNCHANGED << disk, remote_main >>
           ELSE LET analysis == MergeAnalysis(head, remote_main)
                    ours == commits[head].tree
                    theirs == commits[remote_main].tree
                    ancestor == commits[MergeBase(head, remote_main)].tree
                    conflicts == \/ MergeConflict(ancestor.store, ours.store, theirs.store)
                                 \/ MergeConflict(ancestor.user, ours.user, theirs.user)
                    result_store == MergeBlob(ancestor.store, ours.store, theirs.store)
                    result_user == MergeBlob(ancestor.user, ours.user, theirs.user)
                IN  /\ remote_main' = remote_main
                    /\ CASE analysis = "up_to_date" ->
                              /\ last' = SyncStep("ok", dir, helper, analysis)
                              /\ UNCHANGED disk
                         [] analysis = "fast_forward" ->
                              \* set_target, set_head and a forced checkout_head
                              /\ head' = remote_main
                              /\ store_file' = Some(theirs.store)
                              /\ user_file' = Some(theirs.user)
                              /\ commits' = commits
                              /\ last' = SyncStep("ok", dir, helper, analysis)
                         [] analysis = "normal" /\ conflicts ->
                              \* checkout_index of the conflicted index, return Ok
                              /\ last' = SyncStep("ok", dir, helper, "conflict")
                              /\ UNCHANGED disk
                         [] OTHER ->
                              \* the merged tree is committed on HEAD with both
                              \* parents, then checkout_head(None)
                              /\ commits' = Append(commits,
                                               Commit(<< head, remote_main >>,
                                                      MergeMessage(remote_main, head),
                                                      result_store, result_user))
                              /\ head' = Len(commits) + 1
                              /\ store_file' = IF checkout_updates THEN Some(result_store)
                                               ELSE store_file
                              /\ user_file' = IF checkout_updates THEN Some(result_user)
                                              ELSE user_file
                              /\ last' = SyncStep("ok", dir, helper, analysis)

\* another installation of the same store, cloned from the remote, adds an
\* item, saves and pushes: the remote branch moves one commit ahead
RemoteCommit(label, password) ==
    /\ phase = "closed"
    /\ remote_main # 0
    /\ Len(commits) < MaxCommits
    /\ rand < MaxRand
    /\ LET tip == commits[remote_main]
           st == FromBytes(tip.tree.store)
           master == st.key.p
           nonce_slice == rand + 1
           st1 == [ st EXCEPT !.items = Insert(@, label,
                                            Item(nonce_slice,
                                                 Encrypt(master, nonce_slice, password))) ]
       IN  /\ commits' = Append(commits,
                            Commit(<< remote_main >>, DispatchMessage("add", label),
                                   StoreBytes(st1), tip.tree.user))
           /\ remote_main' = Len(commits) + 1
           /\ rand' = rand + 1
           /\ last' = Step("remote", "ok", None, { EncCall(master, nonce_slice, { rand + 1 }) })
    /\ UNCHANGED << manager, store_file, user_file, head, origin, phase, cmd, result,
                    file_rekeyed >>

----------------------------------------------------------------------------
(* Store::nuke *)

\* how self.sync(SyncDirection::Push) ends
SyncPushResult(auth_required, keys, net_ok) ==
    IF ~IsSome(user.remote) THEN "ok"
    ELSE IF ~IsSome(origin) \/ ~net_ok THEN "err"
    ELSE IF CallbackResult(auth_required, keys) # "ok" THEN CallbackResult(auth_required, keys)
    ELSE IF remote_main = 0 \/ remote_main \in Ancestors(head) THEN "ok"
    ELSE "err"

\* whether that sync pushed anything: without a remote in the User Record it
\* prints "Remote not set" and returns Ok
SyncPushed(auth_required, keys, net_ok) ==
    IsSome(user.remote) /\ SyncPushResult(auth_required, keys, net_ok) = "ok"

\* what a nuke did, besides the fields of every step
NukeStepOf(res, sync, archive, pushed, archived, deleted) ==
    Step("nuke", res, None, {})
    @@ [ sync |-> sync, archive |-> archive, pushed |-> pushed, archived |-> archived,
         deleted |-> deleted ]

Nuke(sync, archive, auth_required, keys, net_ok, archive_ok) ==
    /\ phase = "open"
    /\ LET push_res == IF sync THEN SyncPushResult(auth_required, keys, net_ok) ELSE "ok"
           pushed == sync /\ SyncPushed(auth_required, keys, net_ok)
       IN  /\ remote_main' = IF pushed THEN head ELSE remote_main
           /\ IF push_res # "ok"
              THEN \* `self.sync(..)?` returns the error of the push
                   /\ last' = NukeStepOf(push_res, sync, archive, FALSE, FALSE, FALSE)
                   /\ Dispatched("nuke", << >>, push_res)
                   /\ UNCHANGED << manager, disk, origin >>
              ELSE IF archive /\ ~archive_ok
              THEN \* pm.tar could not be created or written
                   /\ last' = NukeStepOf("err", sync, archive, pushed, FALSE, FALSE)
                   /\ Dispatched("nuke", << >>, "err")
                   /\ UNCHANGED << manager, disk, origin >>
              ELSE \* remove_dir_all(data_dir): the files and the repository are
                   \* gone; the save that follows has nothing to write
                   /\ store_file' = None
                   /\ user_file' = None
                   /\ head' = 0
                   /\ origin' = None
                   /\ commits' = commits
                   /\ Dropped
                   /\ phase' = "nuked"
                   /\ last' = NukeStepOf("ok", sync, archive, pushed, archive, TRUE)
    /\ UNCHANGED << rand, file_rekeyed >>

----------------------------------------------------------------------------
(* Manager::history *)

\* the commits of a set, latest first: the order of the revwalk from HEAD
RECURSIVE Descending(_)
Descending(S) ==
    IF S = {} THEN << >>
    ELSE LET m == CHOOSE x \in S : \A y \in S : y <= x
         IN  << m >> \o Descending(S \ { m })

\* a history that shows the part of the message after the action whole
HistoryValueWhole(parts) == SubSeq(parts, 3, Len(parts))

\* the Value column of a row: commit_parts[2]
HistoryValue(parts) == << parts[3] >>

\* the row of one commit: Binary, Action, Value
HistoryRow(message) ==
    LET commit_parts == parse_commit_message(message)
    IN  << commit_parts[1], commit_parts[2], HistoryValue(commit_parts) >>

\* how the walk ends: a message that is not UTF-8 is the typed error, a
\* message of one token makes commit_parts[1] index past the end
HistoryResult(walk) ==
    IF \E i \in 1..Len(walk) :
          /\ commits[walk[i]].message = NonUtf8 \/ Len(commits[walk[i]].message) < 2
          /\ \A j \in 1..(i - 1) : Len(commits[walk[j]].message) >= 2
    THEN LET i == CHOOSE i \in 1..Len(walk) :
                     /\ commits[walk[i]].message = NonUtf8 \/ Len(commits[walk[i]].message) < 2
                     /\ \A j \in 1..(i - 1) : Len(commits[walk[j]].message) >= 2
         IN  IF commits[walk[i]].message = NonUtf8 THEN "err" ELSE "panic"
    ELSE "ok"

History ==
    /\ phase = "open"
    /\ LET walk == Descending(Ancestors(head))
           res == HistoryResult(walk)
       IN  /\ last' = Step("history", res, None, {})
                      @@ [ walk |-> walk,
                           rows |-> IF res = "ok"
                                    THEN [ i \in 1..Len(walk) |->
                                              HistoryRow(commits[walk[i]].message) ]
                                    ELSE << >> ]
           /\ Dispatched("history", << >>, res)
    /\ UNCHANGED << manager, disk, origin, remote_main, rand, file_rekeyed >>

----------------------------------------------------------------------------
(* Manager::save, run by the dispatcher once the operation returned Ok. *)

SaveFailures == { "none", "store", "user", "commit" }

\* a save that does not look at the flag
SaveWritesAlways(dirty) == TRUE

\* whether save goes into its `if self.fs_dirty` body
SaveWrites(dirty) == dirty

\* the nonce User::save is given: the one user.bin was opened with
SaveUserNonce(nonce, drawn) == nonce

Save(fail) ==
    /\ phase = "done"
    /\ result = "ok"
    /\ LET unonce == SaveUserNonce(user_nonce, rand + 1)
           store_bytes == StoreBytes(store)
           user_bytes == UserBytes(user, store_aes, unonce)
       IN  IF ~SaveWrites(fs_dirty)
           THEN /\ fail = "none"
                /\ last' = Step("save", "ok", None, {}) @@ [ committed |-> FALSE, of |-> cmd.op ]
                /\ UNCHANGED << disk, file_rekeyed >>
           ELSE /\ store_file' = IF fail = "store" THEN store_file ELSE Some(store_bytes)
                /\ file_rekeyed' = IF fail = "store" THEN file_rekeyed ELSE rekeyed
                /\ user_file' = IF fail \in { "store", "user" } THEN user_file
                                ELSE Some(user_bytes)
                /\ IF fail = "none"
                   THEN /\ commits' = Append(commits,
                                         Commit(<< head >>, cmd.message, store_bytes, user_bytes))
                        /\ head' = Len(commits) + 1
                   ELSE UNCHANGED << commits, head >>
                /\ last' = Step("save", IF fail = "none" THEN "ok" ELSE "err", None,
                                IF fail = "store" THEN {}
                                ELSE { EncCall(store_aes, unonce, {}) })
                           @@ [ committed |-> fail = "none", of |-> cmd.op ]
    /\ Dropped
    /\ phase' = "closed"
    /\ UNCHANGED << origin, remote_main, rand >>

\* the operation returned an error or the process aborted: nothing is saved
Abort ==
    /\ phase = "done"
    /\ result # "ok"
    /\ Dropped
    /\ phase' = "closed"
    /\ last' = Step("abort", result, None, {}) @@ [ of |-> cmd.op ]
    /\ UNCHANGED << disk, origin, remote_main, rand, file_rekeyed >>

----------------------------------------------------------------------------
(* The specifications. Each draws the inputs of the operations it is about *)
(* from the sets above and holds the others fixed.                         *)

Opt(S) == { None } \cup { Some(x) : x \in S }
FullHelper == { "username", "password" }
\* the ids an undo is given: none (HEAD), a commit, or an id the repository
\* does not know (0, or one past the commits made so far)
Ids == Opt(0..MaxCommits + 1)

\* the store and its history: add, delete, reset, copy, list, undo and a save
\* that succeeds
Next ==
    \/ ManagerInit("correcthorse", "alice", "alice@example.org", None, FALSE, FullHelper, FALSE)
    \/ \E k \in { "correcthorse", "batterystaple" } : ManagerNew(k)
    \/ \E l \in Labels, p \in Passwords, o \in BOOLEAN, a \in BOOLEAN : Add(l, p, o, a)
    \/ \E l \in Labels : Delete(l)
    \/ \E a \in BOOLEAN : Reset(a)
    \/ \E l \in Labels, c \in BOOLEAN : Copy(l, c)
    \/ List
    \/ \E id \in Ids : Undo(id)
    \/ Save("none")
    \/ Abort

Spec == Init /\ [][Next]_vars

\* a save that fails part of the way: the write of a file or the commit
NextFail ==
    \/ ManagerInit("correcthorse", "alice", "alice@example.org", None, FALSE, FullHelper, FALSE)
    \/ ManagerNew("correcthorse")
    \/ \E p \in Passwords : Add(<< "github" >>, p, TRUE, TRUE)
    \/ Delete(<< "github" >>)
    \/ \E id \in { None, Some(2) } : Undo(id)
    \/ \E f \in SaveFailures : Save(f)

SpecFail == Init /\ [][NextFail]_vars

\* the key hierarchy: creating, unlocking and rekeying
NextKey ==
    \/ \E k \in Passphrases :
          ManagerInit(k, "alice", "alice@example.org", None, FALSE, FullHelper, FALSE)
    \/ \E k \in Passphrases : ManagerNew(k)
    \/ \E l \in Labels, p \in Passwords : Add(l, p, TRUE, TRUE)
    \/ \E k \in Passphrases : Modify(k)
    \/ \E id \in { None, Some(1) } : Undo(id)
    \/ \E f \in { "none", "commit" } : Save(f)
    \/ Abort

SpecKey == Init /\ [][NextKey]_vars

\* the User Record: set_user and its undo
NextUser ==
    \/ \E r \in Opt(Urls), c \in BOOLEAN, keys \in HelperOutputs, d \in BOOLEAN :
          ManagerInit("correcthorse", "alice", "alice@example.org", r, c, keys, d)
    \/ ManagerNew("correcthorse")
    \/ \E n \in Opt(Names), e \in Opt(Emails), r \in Opt(Urls \cup { "-", "not a url" }),
          c \in Opt(BOOLEAN) :
          \E keys \in IF c = Some(FALSE) THEN { FullHelper } ELSE HelperOutputs :
             SetUser(n, e, r, c, keys)
    \/ Delete(<< "github" >>)
    \/ \E id \in { None, Some(2) } : Undo(id)
    \/ Save("none")
    \/ Abort

SpecUser == Init /\ [][NextUser]_vars

\* two installations and their remote: push, pull and the merges of a pull
NextSync ==
    \/ \E r \in Opt(Urls) :
          ManagerInit("correcthorse", "alice", "alice@example.org", r, FALSE, FullHelper, FALSE)
    \/ ManagerNew("correcthorse")
    \/ \E r \in Urls : SetUser(None, None, Some(r), Some(FALSE), FullHelper)
    \/ Delete(<< "github" >>)
    \/ \E d \in { "push", "pull" }, a \in BOOLEAN, n \in BOOLEAN, c \in BOOLEAN :
          \E keys \in IF a THEN HelperOutputs ELSE { FullHelper } : Sync(d, a, keys, n, c)
    \/ RemoteCommit(<< "github" >>, "hunter2hunter2")
    \/ Save("none")
    \/ Abort

SpecSync == Init /\ [][NextSync]_vars

\* undo over the messages a repository can hold
NextUndo ==
    \/ ManagerInit("correcthorse", "alice", "alice@example.org", None, FALSE, FullHelper, FALSE)
    \/ ManagerNew("correcthorse")
    \/ Add(<< "github" >>, "hunter2hunter2", TRUE, TRUE)
    \/ \E m \in ForeignMessages : ForeignCommit(m)
    \/ \E id \in Ids : Undo(id)
    \/ Save("none")
    \/ Abort

SpecUndo == Init /\ [][NextUndo]_vars

\* history over the commits of adds, deletes and of git itself
NextHistory ==
    \/ ManagerInit("correcthorse", "alice", "alice@example.org", None, FALSE, FullHelper, FALSE)
    \/ ManagerNew("correcthorse")
    \/ \E l \in Labels : Add(l, "hunter2hunter2", TRUE, TRUE)
    \/ \E l \in Labels : Delete(l)
    \/ \E a \in BOOLEAN : Reset(a)
    \/ \E m \in { NonUtf8, << "store" >>, << "bogus" >> } : ForeignCommit(m)
    \/ History
    \/ Save("none")
    \/ Abort

SpecHistory == Init /\ [][NextHistory]_vars

\* nuke, with and without a remote to push to
NextNuke ==
    \/ \E r \in Opt(Urls) :
          ManagerInit("correcthorse", "alice", "alice@example.org", r, FALSE, FullHelper, FALSE)
    \/ ManagerNew("correcthorse")
    \/ Add(<< "github" >>, "hunter2hunter2", TRUE, TRUE)
    \/ \E r \in Urls \cup { "-" } : SetUser(None, None, Some(r), Some(FALSE), FullHelper)
    \/ \E d \in { "push" }, a \in BOOLEAN :
          \E keys \in IF a THEN HelperOutputs ELSE { FullHelper } : Sync(d, a, keys, TRUE, FALSE)
    \/ \E s \in BOOLEAN, ar \in BOOLEAN, a \in BOOLEAN, n \in BOOLEAN, ok \in BOOLEAN :
          \E keys \in IF a THEN HelperOutputs ELSE { FullHelper } : Nuke(s, ar, a, keys, n, ok)
    \/ Save("none")
    \/ Abort

SpecNuke == Init /\ [][NextNuke]_vars

----------------------------------------------------------------------------
(* diff (diff.rs): the keys added to, modified in and deleted from a map. *)

DiffKeys == { "a", "b", "c", "d" }
DiffValues == { "x", "y" }

\* the maps from some of the keys to the values
DiffMaps == UNION { [ D -> DiffValues ] : D \in SUBSET DiffKeys }

\* a diff that calls every key of both maps modified
diffModifiedAll(lhs, rhs) ==
    [ added |-> { k \in DOMAIN rhs : k \notin DOMAIN lhs },
      modified |-> { k \in DOMAIN rhs : k \in DOMAIN lhs },
      deleted |-> { k \in DOMAIN lhs : k \notin DOMAIN rhs } ]

\* the first loop collects the keys of lhs that rhs lacks; the second goes
\* over rhs: a key lhs lacks is added, a key with another value is modified
diff(lhs, rhs) ==
    [ added |-> { k \in DOMAIN rhs : k \notin DOMAIN lhs },
      modified |-> { k \in DOMAIN rhs : k \in DOMAIN lhs /\ rhs[k] # lhs[k] },
      deleted |-> { k \in DOMAIN lhs : k \notin DOMAIN rhs } ]

InitDiff ==
    /\ Blank
    /\ phase = "diff"
    /\ \E lhs \in DiffMaps, rhs \in DiffMaps :
          cmd = [ op |-> "diff", message |-> << >>, lhs |-> lhs, rhs |-> rhs ]
    /\ result = "-"
    /\ last = NoLast

DiffCall ==
    /\ phase = "diff"
    /\ phase' = "diffed"
    /\ result' = diff(cmd.lhs, cmd.rhs)
    /\ UNCHANGED << manager, disk, origin, remote_main, rand, cmd, last, file_rekeyed >>

SpecDiff == InitDiff /\ [][DiffCall]_vars

----------------------------------------------------------------------------
(* The generated password of Manager::add (input = false). A character is  *)
(* its position in password_charset: 1..10 the digits, 11..62 the letters, *)
(* 63..94 the punctuation.                                                 *)

AlnumSize == 62
CharsetSize == 94

\* the lengths a password is asked for, and the outcomes of the generator
Lengths == { 0, 1, 8, 16, 62, 63, 94, 95 }
Seeds == 0..9

Min(a, b) == IF a < b THEN a ELSE b

\* a subset that has the punctuation whatever special_chars says
SubsetSizeAll(special_chars) == CharsetSize

\* &password_charset[..(if special_chars { 94 } else { 62 })]
SubsetSize(special_chars) == IF special_chars THEN CharsetSize ELSE AlnumSize

\* slice.choose_multiple(rng, amount): min(amount, slice.len()) elements of the
\* slice, no element twice; the seed stands for what the generator draws
ChooseMultiple(size, amount, seed) ==
    [ i \in 1..Min(amount, size) |-> ((seed * 7 + i - 1) % size) + 1 ]

GeneratePassword(len, special_chars, seed) ==
    ChooseMultiple(SubsetSize(special_chars), len, seed)

InitGen ==
    /\ Blank
    /\ phase = "generate"
    /\ \E len \in Lengths, special_chars \in BOOLEAN, seed \in Seeds :
          cmd = [ op |-> "generate", message |-> << >>, len |-> len,
                  special_chars |-> special_chars, seed |-> seed ]
    /\ result = "-"
    /\ last = NoLast

Generate ==
    /\ phase = "generate"
    /\ phase' = "generated"
    /\ result' = GeneratePassword(cmd.len, cmd.special_chars, cmd.seed)
    /\ UNCHANGED << manager, disk, origin, remote_main, rand, cmd, last, file_rekeyed >>

SpecGen == InitGen /\ [][Generate]_vars

----------------------------------------------------------------------------
(* PassManager (pass_manager.rs), the interactive variant main.rs runs: one *)
(* session of a logged-in user. Of the variables, `store.items` is          *)
(* self.passwords, `store_aes` the key of self.cipher, `user_file` the file *)
(* <path>.sha that change reads and rewrites, and `rekeyed` records the key *)
(* a successful change set.                                                 *)

Sha256(salt, key) == << "sha256", salt, key >>

\* the file <path>.sha: 16 bytes of salt and the 32 bytes of a hash
ShaFile(salt, key) == [ salt |-> salt, hash |-> Sha256(salt, key) ]

\* a session after login with the key "correcthorse"; <path>.sha is a file
\* this variant opens without creating it, so it is there or it is not
InitPassManager ==
    /\ phase = "session"
    /\ store = NoStore
    /\ store_aes = Sha256(0, "correcthorse")
    /\ user_file \in { None, Some(ShaFile(0, "correcthorse")) }
    /\ user = NoUser /\ user_nonce = 0 /\ key_aes = None /\ fs_dirty = FALSE
    /\ store_file = None
    /\ commits = << >> /\ head = 0 /\ origin = None /\ remote_main = 0
    /\ rand = 0 /\ rekeyed = None /\ file_rekeyed = None
    /\ cmd = NoCmd /\ result = "-" /\ last = NoLast

\* what a command of the session leaves alone besides the struct
PassManagerFrame ==
    UNCHANGED << phase, user, user_nonce, key_aes, fs_dirty, store_file, commits, head,
                 origin, remote_main, cmd, result, file_rekeyed >>

PassManagerAdd(label, password, choice) ==
    /\ phase = "session"
    /\ rand < MaxRand
    /\ LET nonce_slice == rand + 1
           entry == Item(nonce_slice, Encrypt(store_aes, nonce_slice, password))
       IN  /\ rand' = rand + 1
           /\ store' = [ store EXCEPT !.items =
                           IF label \notin DOMAIN @ \/ choice THEN Insert(@, label, entry)
                           ELSE @ ]
           /\ last' = Step("add", "ok", None, {}) @@ [ label |-> label, password |-> password ]
    /\ PassManagerFrame
    /\ UNCHANGED << store_aes, user_file, rekeyed >>

PassManagerRemove(label) ==
    /\ phase = "session"
    /\ store' = [ store EXCEPT !.items = Remove(@, label) ]
    /\ last' = Step("remove", IF label \in DOMAIN store.items THEN "ok" ELSE "err", None, {})
               @@ [ label |-> label ]
    /\ PassManagerFrame
    /\ UNCHANGED << store_aes, user_file, rekeyed, rand >>

PassManagerCopy(label) ==
    /\ phase = "session"
    /\ LET found == label \in DOMAIN store.items
           entry == store.items[label]
           ok == found /\ DecryptOk(store_aes, entry.nonce, entry.password)
       IN  last' = Step("copy", IF ok THEN "ok" ELSE "err", None, {})
                   @@ [ label |-> label, found |-> found,
                        clipboard |-> IF ok
                                      THEN Some(Decrypt(store_aes, entry.nonce, entry.password))
                                      ELSE None ]
    /\ PassManagerFrame
    /\ UNCHANGED << store, store_aes, user_file, rekeyed, rand >>

PassManagerList ==
    /\ phase = "session"
    /\ LET ok == store.items # EmptyItems /\ ListOk(store.items, store_aes)
       IN  last' = Step("list", IF ok THEN "ok" ELSE "err", None, {})
                   @@ [ empty |-> store.items = EmptyItems,
                        rows |-> IF ok THEN ListRows(store.items, store_aes) ELSE {} ]
    /\ PassManagerFrame
    /\ UNCHANGED << store, store_aes, user_file, rekeyed, rand >>

\* a change that encrypts the entries again under the new key
ChangeEntriesRewrapped(passwords, old_cipher, new_cipher) ==
    [ l \in DOMAIN passwords |->
         Item(passwords[l].nonce,
              Encrypt(new_cipher, passwords[l].nonce,
                      Decrypt(old_cipher, passwords[l].nonce, passwords[l].password))) ]

\* self.passwords after a change: it is not touched
ChangeEntries(passwords, old_cipher, new_cipher) == passwords

PassManagerChange(cur_key, new_key) ==
    /\ phase = "session"
    /\ rand < MaxRand
    /\ IF IsSome(user_file) /\ Sha256(Unwrap(user_file).salt, cur_key) = Unwrap(user_file).hash
       THEN LET salt == rand + 1
                new_key_hash == Sha256(salt, new_key)
            IN  /\ rand' = rand + 1
                /\ user_file' = Some(ShaFile(salt, new_key))
                /\ store_aes' = new_key_hash
                /\ store' = [ store EXCEPT !.items = ChangeEntries(@, store_aes, new_key_hash) ]
                /\ rekeyed' = Some(new_key)
                /\ last' = Step("change", "ok", None, {})
       ELSE \* <path>.sha cannot be opened, or "Incorrect password"
            /\ last' = Step("change", "err", None, {})
            /\ UNCHANGED << store, store_aes, user_file, rekeyed, rand >>
    /\ PassManagerFrame

NextPassManager ==
    \/ \E l \in Labels, p \in Passwords, c \in BOOLEAN : PassManagerAdd(l, p, c)
    \/ \E l \in Labels : PassManagerRemove(l)
    \/ \E l \in Labels : PassManagerCopy(l)
    \/ PassManagerList
    \/ \E k \in { "correcthorse", "batterystaple" }, n \in { "correcthorse", "batterystaple" } :
          PassManagerChange(k, n)

SpecPassManager == InitPassManager /\ [][NextPassManager]_vars

----------------------------------------------------------------------------
(* The steps the claims are about, and what they read. *)

SaveStep == phase = "done" /\ result = "ok" /\ phase' = "closed"
AddStep == phase = "open" /\ phase' = "done" /\ cmd'.op = "add"
DeleteStep == phase = "open" /\ phase' = "done" /\ cmd'.op = "delete"
UndoStep == phase = "open" /\ phase' = "done" /\ cmd'.op = "undo"
ModifyStep == phase = "open" /\ phase' = "done" /\ cmd'.op = "modify"
NewStep == phase = "closed" /\ last'.op = "new"

\* the item map of the Store blob of commit c, and of its first parent
ItemsOf(c) == FromBytes(commits[c].tree.store).items
ParentItems(c) == ItemsOf(commits[c].parents[1])

\* the maps agree on every label but l
SameBut(a, b, l) ==
    /\ (DOMAIN a) \ { l } = (DOMAIN b) \ { l }
    /\ \A x \in (DOMAIN a) \ { l } : a[x] = b[x]

\* a save that returned Ok has put the manager's store and user into commit c
Snapshots(c, st, u, cipher) ==
    /\ FromBytes(commits'[c].tree.store) = st
    /\ UserOpenOk(commits'[c].tree.user, cipher)
    /\ UserOpen(commits'[c].tree.user, cipher) = u

----------------------------------------------------------------------------
(* C1: Manager::save, when no step of it fails: with fs_dirty set it writes *)
(* both blobs and appends exactly one commit, whose only parent is the      *)
(* commit HEAD pointed to, and HEAD points to the new commit; with fs_dirty *)
(* not set it creates no commit and leaves HEAD alone.                      *)
C1_SaveCommitsOnceIffDirty ==
    [][ (SaveStep /\ last'.res = "ok") =>
          /\ fs_dirty =>
                /\ IsSome(store_file') /\ FromBytes(Unwrap(store_file')) = store
                /\ IsSome(user_file') /\ UserOpen(Unwrap(user_file'), store_aes) = user
                /\ Len(commits') = Len(commits) + 1
                /\ SubSeq(commits', 1, Len(commits)) = commits
                /\ head' = Len(commits')
                /\ commits'[head'].parents = << head >>
                /\ commits'[head'].tree.store = Unwrap(store_file')
                /\ commits'[head'].tree.user = Unwrap(user_file')
          /\ ~fs_dirty => commits' = commits /\ head' = head
      ]_vars

\* a save has appended a commit to a history that had one, and HEAD is on it
C1_Witness ==
    /\ phase = "closed" /\ last.op = "save" /\ last.res = "ok" /\ last.committed
    /\ head = Len(commits) /\ head > 1
    /\ commits[head].parents = << head - 1 >>

----------------------------------------------------------------------------
\* the undo step acts on HEAD, HEAD is the commit `store add <x>` that saved
\* an add of label x to the item map of the prior HEAD (the two blobs differ
\* at x at most), and the store in memory is the one that commit holds
UndoesAddAtHead(x) ==
    /\ UndoStep /\ last'.target = head
    /\ commits[head].message = << "store", "add" >> \o x
    /\ commits[head].parents # << >>
    /\ SameBut(ItemsOf(head), ParentItems(head), x)
    /\ store.items = ItemsOf(head)

\* after the undo, x is gone and the item map is the one before the add
AddReverted(x) ==
    /\ result' = "ok"
    /\ x \notin DOMAIN store'.items
    /\ store'.items = ParentItems(head)

----------------------------------------------------------------------------
\* the commit the undo step works on, and the fields of its message
UndoTarget == last'.target
UndoParts == last'.parts

----------------------------------------------------------------------------
\* the last step was an undo that reverted something: a store add, delete or
\* reset, or a user set
Reverted ==
    /\ last.op = "undo" /\ last.res = "ok" /\ Len(last.parts) >= 2
    /\ \/ last.parts[1] = "store" /\ last.parts[2] \in { "add", "delete", "reset" }
       \/ last.parts[1] = "user" /\ last.parts[2] = "set"

(* C4: undo creates no commit of its own, and the save that ends the same   *)
(* invocation commits the reverted state: after it HEAD is a new commit     *)
(* whose blobs hold the store and the user as undo left them.               *)
C4_SaveCommitsRevertedState ==
    [][ /\ UndoStep => commits' = commits /\ head' = head
        /\ (SaveStep /\ Reverted /\ last'.res = "ok") =>
              /\ Len(commits') = Len(commits) + 1
              /\ head' = Len(commits')
              /\ Snapshots(head', store, user, store_aes)
      ]_vars

----------------------------------------------------------------------------
\* the last step was a delete of a label the store did not have, or an add of
\* a label it had, without overwrite, that the user declined
LeftUnchanged ==
    \/ last.op = "delete" /\ ~last.present
    \/ last.op = "add" /\ last.present /\ ~last.overwrite /\ ~last.answer

(* C5: a delete of an absent label, or an add declined at the overwrite     *)
(* confirmation, returns normally, does not set the dirty flag, and the     *)
(* save that follows creates no commit.                                     *)
C5_NoChangeNoCommit ==
    [][ (SaveStep /\ LeftUnchanged) =>
          /\ last.res = "ok"
          /\ ~fs_dirty
          /\ commits' = commits /\ head' = head
      ]_vars

----------------------------------------------------------------------------
\* item it, read with the cipher, is the password pw
Reads(it, cipher, pw) ==
    /\ DecryptOk(cipher, it.nonce, it.password)
    /\ Decrypt(cipher, it.nonce, it.password) = pw

(* C6: add of a label the store does not have inserts the item and asks for *)
(* no confirmation; add of a label it has, with overwrite false and the     *)
(* confirmation declined, leaves the item map as it was and returns Ok.     *)
C6_AddVacantInsertsDeclinedKeeps ==
    [][ AddStep =>
          /\ last'.label \notin DOMAIN store.items =>
                /\ ~last'.asked
                /\ result' = "ok"
                /\ last'.label \in DOMAIN store'.items
                /\ Reads(store'.items[last'.label], store_aes, last'.password)
                /\ SameBut(store'.items, store.items, last'.label)
          /\ ( /\ last'.label \in DOMAIN store.items
               /\ ~last'.overwrite /\ ~last'.answer ) =>
                /\ last'.asked
                /\ result' = "ok"
                /\ store'.items = store.items
      ]_vars

\* an add of a label the store had was declined at the confirmation, and the
\* item under the label still reads as another password
C6_Witness ==
    /\ phase = "done" /\ last.op = "add" /\ last.res = "ok"
    /\ last.present /\ ~last.overwrite /\ last.asked /\ ~last.answer
    /\ last.label \in DOMAIN store.items
    /\ ~Reads(store.items[last.label], store_aes, last.password)

----------------------------------------------------------------------------
(* C7: add of a label the store has, with overwrite true, leaves one item   *)
(* under the label, which decrypts under the master key to the new          *)
(* password, asks nothing, and leaves every other label as it was.          *)
C7_OverwriteReplaces ==
    [][ (AddStep /\ last'.label \in DOMAIN store.items /\ last'.overwrite) =>
          /\ ~last'.asked
          /\ result' = "ok"
          /\ DOMAIN store'.items = DOMAIN store.items
          /\ Reads(store'.items[last'.label], store_aes, last'.password)
          /\ SameBut(store'.items, store.items, last'.label)
      ]_vars

\* an add with overwrite, declined answer or not, has replaced the item of a
\* label the store had, next to another label
C7_Witness ==
    /\ phase = "done" /\ last.op = "add" /\ last.res = "ok"
    /\ last.present /\ last.overwrite /\ ~last.answer
    /\ Cardinality(DOMAIN store.items) = 2
    /\ Reads(store.items[last.label], store_aes, last.password)
    /\ \E l \in DOMAIN store.items :
          l # last.label /\ ~Reads(store.items[l], store_aes, last.password)

----------------------------------------------------------------------------
\* the key is a master key (a key Manager::init drew), not one derived from a
\* passphrase
IsMasterKey(k) == k[1] = "random"

(* C8: every encryption under the master key, of an item or of the User     *)
(* Record blob, uses a nonce drawn at random for that encryption: none of   *)
(* the encryptions of a step reuses a nonce that already encrypts something *)
(* under the same key.                                                      *)
C8_MasterKeyNoncesAreFresh ==
    \A e \in last.enc : IsMasterKey(e.key) => (e.fresh /\ ~e.seen)

----------------------------------------------------------------------------
(* C9: every passphrase handed to the key derivation, at init, at new and   *)
(* at modify, has passed the validator: it has at least eight characters.   *)
C9_DerivedPassphrasesAreValidated ==
    IsSome(last.kdf) => length_validator(Unwrap(last.kdf))

----------------------------------------------------------------------------
(* C10: modify with a valid new passphrase keeps the master key and the     *)
(* item map, replaces kdf_salt, wrap_nonce and wrapped_key so that the key  *)
(* derived from the new passphrase and the new salt unwraps the same master *)
(* key; once saved, opening the store with the new passphrase succeeds and  *)
(* every item decrypts to the plaintext it had before modify.               *)
C10_RekeyKeepsMasterKeyAndItems ==
    [][ /\ (ModifyStep /\ result' = "ok") =>
              /\ store'.items = store.items
              /\ store_aes' = store_aes
              /\ store'.salt # store.salt
              /\ store'.nonce # store.nonce
              /\ store'.key # store.key
              /\ DecryptOk(Argon2(Unwrap(last'.kdf), store'.salt), store'.nonce, store'.key)
              /\ Decrypt(Argon2(Unwrap(last'.kdf), store'.salt), store'.nonce, store'.key)
                    = store_aes
              /\ Plaintexts(store'.items, store_aes') = Plaintexts(store.items, store_aes)
        /\ (NewStep /\ IsSome(file_rekeyed) /\ last'.key = Unwrap(file_rekeyed).pass) =>
              /\ last'.res = "ok"
              /\ phase' = "open"
              /\ Plaintexts(store'.items, store_aes') = Unwrap(file_rekeyed).plain
      ]_vars

\* the store was opened with a passphrase a saved modify had set, which is
\* not the one it was created with, and it has an item
C10_Witness ==
    /\ phase = "open" /\ last.op = "new" /\ last.res = "ok"
    /\ IsSome(file_rekeyed)
    /\ last.key = Unwrap(file_rekeyed).pass
    /\ store.key # FromBytes(commits[1].tree.store).key
    /\ store.key.k = Argon2(last.key, store.salt)
    /\ store.items # EmptyItems
    /\ Plaintexts(store.items, store_aes) = Unwrap(file_rekeyed).plain

----------------------------------------------------------------------------
\* the passphrase under which pm_store.bin wraps the master key
Wraps(key) ==
    /\ IsSome(store_file)
    /\ DecryptOk(Argon2(key, FromBytes(Unwrap(store_file)).salt),
                 FromBytes(Unwrap(store_file)).nonce, FromBytes(Unwrap(store_file)).key)

(* C11: Manager::new unlocks if and only if the passphrase entered is the   *)
(* one the master key is wrapped under; with any other passphrase it does   *)
(* not succeed, yields no master key, and leaves the manager, the files and *)
(* the history as they were.                                                *)
C11_UnlockIffWrappingPassphrase ==
    [][ NewStep =>
          /\ (phase' = "open") <=> Wraps(last'.key)
          /\ ~Wraps(last'.key) =>
                /\ last'.res # "ok"
                /\ store_aes' = None
                /\ UNCHANGED << manager, disk >>
      ]_vars

----------------------------------------------------------------------------
\* the keys of both maps
DiffUnion == (DOMAIN cmd.lhs) \cup (DOMAIN cmd.rhs)

(* C12: diff(old, new) puts a key in `added` exactly when only new has it,  *)
(* in `deleted` exactly when only old has it, in `modified` exactly when    *)
(* both have it with unequal values, and in none of them when both have it  *)
(* with equal values; the three sets are pairwise disjoint and hold no key  *)
(* outside old \cup new.                                                    *)
C12_DiffClassifiesEveryKeyOnce ==
    phase = "diffed" =>
       /\ \A k \in DiffKeys :
             /\ k \in result.added <=> (k \in DOMAIN cmd.rhs /\ k \notin DOMAIN cmd.lhs)
             /\ k \in result.deleted <=> (k \in DOMAIN cmd.lhs /\ k \notin DOMAIN cmd.rhs)
             /\ k \in result.modified <=>
                   ( /\ k \in DOMAIN cmd.lhs /\ k \in DOMAIN cmd.rhs
                     /\ cmd.lhs[k] # cmd.rhs[k] )
       /\ result.added \cap result.modified = {}
       /\ result.added \cap result.deleted = {}
       /\ result.modified \cap result.deleted = {}
       /\ (result.added \cup result.modified \cup result.deleted) \subseteq DiffUnion

\* a diff with a key of each kind: added, modified, deleted and unchanged
C12_Witness ==
    /\ phase = "diffed"
    /\ result.added # {} /\ result.modified # {} /\ result.deleted # {}
    /\ DiffUnion \ (result.added \cup result.modified \cup result.deleted) # {}

----------------------------------------------------------------------------
\* the size of the alphabet the request draws from
Alphabet == IF cmd.special_chars THEN 94 ELSE 62

\* every character is of the alphabet and none occurs twice
DrawnWithoutReplacement ==
    /\ \A i \in 1..Len(result) : result[i] \in 1..Alphabet
    /\ \A i, j \in 1..Len(result) : i # j => result[i] # result[j]

(* C13, as the specification states it: for every requested length n the    *)
(* generated password has exactly n characters, each of the 62-character    *)
(* alphabet (94 with special characters), and no character occurs twice.    *)
C13_GeneratedHasRequestedLength ==
    phase = "generated" => (Len(result) = cmd.len /\ DrawnWithoutReplacement)

(* C13, amended: the generated password has n characters when n is at most  *)
(* the size of the alphabet and as many characters as the alphabet has when *)
(* n is larger; each is of the alphabet and no character occurs twice.      *)
C13_GeneratedHasLengthUpToAlphabet ==
    phase = "generated" =>
       /\ cmd.len <= Alphabet => Len(result) = cmd.len
       /\ cmd.len > Alphabet => Len(result) = Alphabet
       /\ DrawnWithoutReplacement

\* a password of 63 letters and digits was asked for and one of 62 came out
C13_Witness ==
    /\ phase = "generated" /\ ~cmd.special_chars /\ cmd.len = 63
    /\ Len(result) = 62 /\ cmd.seed > 0

----------------------------------------------------------------------------
ReadStep == phase = "open" /\ phase' = "done" /\ cmd'.op \in { "copy", "list" }

\* the label/plaintext pairs of the item map pm_store.bin holds
PersistedPairs ==
    { << l, FromBytes(Unwrap(store_file)).items[l].password.p >> :
         l \in DOMAIN FromBytes(Unwrap(store_file)).items }

(* C14: copy and list do not set the dirty flag and change neither the item *)
(* map nor the User Record, whether they succeed, report a notice or fail;  *)
(* the save after them writes no file and makes no commit; and what a       *)
(* successful list shows is the label/plaintext pairs of the persisted item *)
(* map, so two lists with no mutation between them show the same pairs.     *)
C14_CopyAndListOnlyRead ==
    [][ /\ ReadStep =>
              /\ fs_dirty' = fs_dirty
              /\ store' = store /\ user' = user
              /\ UNCHANGED disk
        /\ (ReadStep /\ cmd'.op = "list" /\ result' = "ok") =>
              last'.rows = PersistedPairs
        /\ (SaveStep /\ cmd.op \in { "copy", "list" }) =>
              /\ UNCHANGED disk
              /\ ~last'.committed
      ]_vars

\* the installation was opened for a list of two items, and the save that
\* followed made no commit: HEAD is still the commit of the last add
C14_Witness ==
    /\ phase = "closed" /\ last.op = "save" /\ last.of = "list" /\ ~last.committed
    /\ IsSome(store_file) /\ Cardinality(PersistedPairs) = 2
    /\ commits[head].message[2] = "add"

PullStep == phase = "open" /\ phase' = "done" /\ cmd'.op = "sync" /\ last'.dir = "pull"

\* the item of label l in an item map, None when the map has no such label
ItemAt(items, l) == IF l \in DOMAIN items THEN Some(items[l]) ELSE None

(* C15: a pull whose merge analysis is a normal (divergent) merge does not  *)
(* merge the stores by itself: a label the user did not select keeps its    *)
(* local item (or its absence) in the item map HEAD holds after the pull,   *)
(* a selected label gets what the remote holds for it, and the pull makes   *)
(* no commit of its own, committing being left to the save that follows.    *)
C15_NormalMergeAppliesOnlySelection ==
    [][ (PullStep /\ last'.analysis = "normal") =>
           /\ \A l \in Labels :
                 ItemAt(ItemsOf(head)', l) =
                    IF l \in last'.selected THEN ItemAt(ItemsOf(remote_main), l)
                    ELSE ItemAt(ItemsOf(head), l)
           /\ commits' = commits
      ]_vars

\* the commit message grammar: an area, an action, and perhaps a value
WellFormed(message) == Len(message) >= 2 /\ message[1] \in { "store", "user" }

(* C16: every commit reachable from HEAD, whether made by init, by a save   *)
(* or during a sync, has a message "<area> <action>[ <value>]" whose area   *)
(* is store or user.                                                        *)
C16_ReachableCommitsParse ==
    head # 0 => \A c \in Ancestors(head) : WellFormed(commits[c].message)

\* the messages undo has an arm for
Undoable(message) ==
    /\ Len(message) >= 2
    /\ \/ message[1] = "store" /\ message[2] \in { "add", "delete", "reset", "modify" }
       \/ message[1] = "user" /\ message[2] = "set"

(* C17: undo of a commit whose message is none of store add, store delete,  *)
(* store reset, store modify and user set - fewer than two tokens, an       *)
(* unknown area or an unknown action - ends in the bad commit message       *)
(* format error and changes neither the store, the User Record nor the      *)
(* dirty flag.                                                              *)
C17_UndoOfOtherMessageIsHardError ==
    [][ (UndoStep /\ UndoTarget # 0 /\ ~Undoable(commits[UndoTarget].message)) =>
           /\ result' = "err"
           /\ store' = store /\ user' = user /\ fs_dirty' = fs_dirty
      ]_vars

UndoUserSetStep ==
    /\ UndoStep /\ result' = "ok"
    /\ UndoParts[1] = "user" /\ UndoParts[2] = "set"

\* the User Record in the parent of the commit the undo is about, read with
\* the cipher of the master key the manager holds
ParentUser == UserOpen(commits[commits[UndoTarget].parents[1]].tree.user, store_aes)

\* field f is one of the names of the comma-joined list
Named(f) == Has(SplitFields(UndoParts[3]), f)

(* C18: a successful undo of a `user set <fields>` commit gives each of     *)
(* name, email and remote that the comma-joined list names the value it has *)
(* in the User Record of the parent commit, read with the current           *)
(* master-key cipher, and leaves the other fields and the item map as they  *)
(* were.                                                                    *)
C18_UndoUserSetRestoresNamedFields ==
    [][ UndoUserSetStep =>
           /\ UserOpenOk(commits[commits[UndoTarget].parents[1]].tree.user, store_aes)
           /\ user'.name = IF Named("name") THEN ParentUser.name ELSE user.name
           /\ user'.email = IF Named("email") THEN ParentUser.email ELSE user.email
           /\ user'.remote = IF Named("remote") THEN ParentUser.remote ELSE user.remote
           /\ store' = store
      ]_vars

\* an undo of `user set name` gave the name back while a remote set by a
\* later commit stayed
C18_Witness ==
    /\ phase = "done" /\ cmd.op = "undo" /\ result = "ok"
    /\ last.parts = << "user", "set", "name" >>
    /\ last.target # head
    /\ user.name = "alice"
    /\ IsSome(user.remote)
    /\ UserOpen(commits[last.target].tree.user, store_aes).name = "bob"
    /\ ~IsSome(UserOpen(commits[last.target].tree.user, store_aes).remote)

SetUserStep == phase = "open" /\ phase' = "done" /\ cmd'.op = "set_user"

(* C19: a set_user that succeeds gives name, email and remote the values    *)
(* the command provided and leaves a field that was not provided, and the   *)
(* item map, as they were; a remote of "-" leaves the User Record without a *)
(* remote and the repository without its registration of "origin", and a    *)
(* url becomes the remote of the record and the url "origin" is registered  *)
(* with.                                                                    *)
C19_SetUserChangesProvidedFields ==
    [][ (SetUserStep /\ result' = "ok") =>
           LET given == last'.given
           IN  /\ user'.name = IF IsSome(given.name) THEN Unwrap(given.name) ELSE user.name
               /\ user'.email = IF IsSome(given.email) THEN Unwrap(given.email) ELSE user.email
               /\ ~IsSome(given.remote) => user'.remote = user.remote /\ origin' = origin
               /\ given.remote = Some("-") => user'.remote = None /\ origin' = None
               /\ (IsSome(given.remote) /\ given.remote # Some("-")) =>
                     /\ IsSome(user'.remote)
                     /\ Unwrap(user'.remote).url = Unwrap(given.remote)
                     /\ origin' = given.remote
               /\ store' = store
      ]_vars

\* `user set --remote -` on an installation whose saved User Record has a
\* remote: the record has none now and "origin" is gone, the name is kept
C19_Witness ==
    /\ phase = "done" /\ cmd.op = "set_user" /\ result = "ok"
    /\ last.given = [ name |-> None, email |-> None, remote |-> Some("-") ]
    /\ IsSome(UserOpen(Unwrap(user_file), store_aes).remote)
    /\ user.name = UserOpen(Unwrap(user_file), store_aes).name
    /\ user.remote = None
    /\ origin = None

\* the step asked the credential helper, and its output lacks a key
HelperLacksKey ==
    /\ "helper" \in DOMAIN last
    /\ IsSome(last.helper)
    /\ ~get_remote_credentials_ok(Unwrap(last.helper))

(* C20: whenever init, set_user or a sync push or pull asks the credential  *)
(* helper and its output lacks the username or the password key, the step   *)
(* ends in the typed error about the missing key: it does not go on with    *)
(* credentials and it does not abort in another way.                        *)
C20_MissingKeyIsHardError ==
    HelperLacksKey => last.res = "err"

\* Manager::init has just returned Ok
InitDone == last.op = "init" /\ last.res = "ok"

(* C21: when Manager::init returns, the initial commit holds the two files  *)
(* as they are on disk and the User Record in it - the one a reopening      *)
(* reads - is the record the manager holds in memory, with the name, the    *)
(* email and the remote that were entered.                                  *)
C21_InitialCommitHoldsEnteredUser ==
    InitDone =>
       /\ head = 1
       /\ commits[1].tree.store = Unwrap(store_file)
       /\ commits[1].tree.user = Unwrap(user_file)
       /\ UserOpenOk(Unwrap(user_file), store_aes)
       /\ UserOpen(Unwrap(user_file), store_aes) = user

\* the two files on disk are the two blobs of the tree of HEAD
FilesAreHead ==
    /\ store_file = Some(commits[head].tree.store)
    /\ user_file = Some(commits[head].tree.user)

(* C22: a save never persists a part: either it wrote both files and made   *)
(* one commit that covers them, or - a write or the commit failed, or there *)
(* was nothing to save - the files on disk are the contents of HEAD.        *)
C22_SaveIsAllOrNothing ==
    [][ SaveStep =>
           \/ /\ Len(commits') = Len(commits) + 1
              /\ head' = Len(commits')
              /\ store_file' = Some(StoreBytes(store))
              /\ user_file' = Some(UserBytes(user, store_aes, user_nonce))
              /\ FilesAreHead'
           \/ /\ commits' = commits /\ head' = head
              /\ FilesAreHead'
      ]_vars

\* what the store reads as: the plaintext under each label
Plain(items, cipher) == [ l \in DOMAIN items |-> Decrypt(cipher, items[l].nonce, items[l].password) ]

\* an add that was accepted: the label was vacant, or overwrite was given, or
\* the confirmation was answered yes
Accepted == ~last'.present \/ last'.overwrite \/ last'.answer

(* C23: the store reads as the adds and deletes made it. An accepted add    *)
(* makes its label read as its password and a declined one changes nothing; *)
(* a delete removes its label and nothing else; a save after either writes  *)
(* the map and a reopening reads it back; copy of a present label puts its  *)
(* plaintext - that of the last accepted add - on the clipboard; list shows *)
(* one row per present label with that plaintext, and for a store whose     *)
(* labels were all deleted it reports the empty store.                      *)
C23_CopyAndListShowLastAcceptedAdd ==
    [][ /\ AddStep =>
              /\ ListOk(store'.items, store_aes)
              /\ Plain(store'.items, store_aes) =
                    IF Accepted
                    THEN Insert(Plain(store.items, store_aes), last'.label, last'.password)
                    ELSE Plain(store.items, store_aes)
        /\ DeleteStep =>
              Plain(store'.items, store_aes) = Remove(Plain(store.items, store_aes), last'.label)
        /\ (SaveStep /\ cmd.op \in { "add", "delete" }) =>
              FromBytes(Unwrap(store_file')).items = store.items
        /\ (NewStep /\ last'.res = "ok") =>
              /\ store'.items = FromBytes(Unwrap(store_file)).items
              /\ ListOk(store'.items, store_aes')
        /\ (ReadStep /\ cmd'.op = "copy") =>
              /\ last'.found = (last'.label \in DOMAIN store.items)
              /\ (last'.found /\ result' = "ok") =>
                    last'.clipboard = Some(Plain(store.items, store_aes)[last'.label])
              /\ ~last'.found => (result' = "ok" /\ last'.clipboard = None)
        /\ (ReadStep /\ cmd'.op = "list") =>
              /\ result' = "ok"
              /\ last'.empty = (DOMAIN store.items = {})
              /\ last'.rows = { << l, Plain(store.items, store_aes)[l] >> : l \in DOMAIN store.items }
              /\ Cardinality(last'.rows) = Cardinality(DOMAIN store.items)
      ]_vars

\* github was added, added again with another password over the first, and a
\* later run lists one row, with the second password
C23_Witness ==
    /\ phase = "done" /\ cmd.op = "list" /\ result = "ok"
    /\ Len(commits) = 3 /\ head = 3
    /\ commits[2].message = << "store", "add", "github" >>
    /\ commits[3].message = << "store", "add", "github" >>
    /\ ItemsOf(2)[<< "github" >>].password.p = "hunter2hunter2"
    /\ last.rows = { << << "github" >>, "Tr0ub4dor&3" >> }

\* github was added and deleted, and a later run lists the empty store
C23_WitnessEmpty ==
    /\ phase = "done" /\ cmd.op = "list" /\ result = "ok"
    /\ Len(commits) = 3 /\ head = 3
    /\ commits[2].message = << "store", "add", "github" >>
    /\ commits[3].message = << "store", "delete", "github" >>
    /\ last.empty /\ last.rows = {}

UndoModifyStep ==
    /\ UndoStep /\ UndoTarget # 0
    /\ UndoParts[1] = "store" /\ UndoParts[2] = "modify"

(* C24: undo of a `store modify` commit returns Ok after its notice and     *)
(* changes nothing: the wrapped key, the salt, the wrap nonce, the item     *)
(* map, the User Record and the dirty flag are what they were.              *)
C24_UndoModifyIsRefused ==
    [][ UndoModifyStep =>
           /\ result' = "ok"
           /\ store'.key = store.key
           /\ store'.salt = store.salt
           /\ store'.nonce = store.nonce
           /\ store'.items = store.items
           /\ user' = user
           /\ fs_dirty' = fs_dirty
           /\ key_aes' = key_aes /\ store_aes' = store_aes
      ]_vars

\* the rekey at HEAD was given to undo, on a store with an item: the store
\* is still wrapped under the passphrase of the rekey
C24_Witness ==
    /\ phase = "done" /\ cmd.op = "undo" /\ result = "ok"
    /\ last.target = head
    /\ commits[head].message = << "store", "modify" >>
    /\ DOMAIN store.items # {}
    /\ store = FromBytes(commits[head].tree.store)
    /\ store.key # FromBytes(commits[1].tree.store).key
    /\ ~fs_dirty

HistoryStep == phase = "open" /\ phase' = "done" /\ cmd'.op = "history"

\* the value a message carries: what follows the action, "-" when nothing does
MessageValue(message) ==
    IF Len(message) = 2 THEN << "-" >> ELSE SubSeq(message, 3, Len(message))

(* C25: history goes through every commit reachable from HEAD once, from    *)
(* HEAD back to the root, the later commit first, and when every message    *)
(* has the form of the grammar it shows for each commit its area, its       *)
(* action and its value - the label or field list the message carries, "-"  *)
(* for a message of two tokens; a message that is not UTF-8 makes it fail   *)
(* with the typed error.                                                    *)
C25_HistoryShowsEveryCommitOnce ==
    [][ HistoryStep =>
           LET walk == last'.walk
               rows == last'.rows
           IN  /\ { walk[i] : i \in 1..Len(walk) } = Ancestors(head)
               /\ Len(walk) = Cardinality(Ancestors(head))
               /\ walk[1] = head /\ walk[Len(walk)] = 1
               /\ \A i \in 1..(Len(walk) - 1) : walk[i] > walk[i + 1]
               /\ (\E c \in Ancestors(head) : commits[c].message = NonUtf8) => result' = "err"
               /\ (\A c \in Ancestors(head) : WellFormed(commits[c].message)) =>
                     /\ result' = "ok"
                     /\ Len(rows) = Len(walk)
                     /\ \A i \in 1..Len(walk) :
                           rows[i] = << commits[walk[i]].message[1],
                                        commits[walk[i]].message[2],
                                        MessageValue(commits[walk[i]].message) >>
      ]_vars

NukeStep == phase = "open" /\ last'.op = "nuke"

(* C26: nuke pushes (if sync_first), then archives (if archive), then       *)
(* deletes. A nuke with sync_first deletes the installation only after a    *)
(* push that took place and succeeded - the remote then holds HEAD - and    *)
(* deletes nothing when the push failed or there is no remote to push to;   *)
(* a nuke with archive deletes only after the archive was written.          *)
C26_NukeDeletesOnlyAfterPush ==
    [][ NukeStep =>
           /\ (last'.sync /\ last'.deleted) => (last'.pushed /\ remote_main' = head)
           /\ (last'.sync /\ ~last'.pushed) =>
                 (store_file' = store_file /\ user_file' = user_file /\ head' = head)
           /\ (last'.archive /\ last'.deleted) => last'.archived
           /\ last'.deleted = (store_file' = None /\ user_file' = None /\ head' = 0)
      ]_vars

(* C27: a set_user that fails - the remote is no url, has no host, or the  *)
(* credentials could not be had - leaves the name, the email and the remote *)
(* of the User Record, the "origin" registration of the repository and the  *)
(* dirty flag as they were before the call.                                 *)
C27_FailedSetUserChangesNothing ==
    [][ (SetUserStep /\ result' = "err") =>
           /\ user'.name = user.name
           /\ user'.email = user.email
           /\ user'.remote = user.remote
           /\ origin' = origin
           /\ fs_dirty' = fs_dirty
      ]_vars

(* C28: in every state reached through init, set_user and undo, whether     *)
(* they succeeded or failed, the repository has an "origin" remote exactly  *)
(* when the User Record has a remote, and it is registered with the url of  *)
(* the record's remote.                                                     *)
C28_OriginIsUserRemote ==
    phase \in { "open", "done" } =>
       /\ IsSome(origin) = IsSome(user.remote)
       /\ IsSome(origin) => Unwrap(origin) = Unwrap(user.remote).url

\* the undo is of a `store delete` commit whose parent does not hold the label
UndoDeleteOfAbsentStep ==
    /\ UndoStep /\ UndoTarget # 0
    /\ UndoParts[1] = "store" /\ UndoParts[2] = "delete"
    /\ Len(commits[UndoTarget].parents) > 0
    /\ << UndoParts[3] >> \notin DOMAIN ParentItems(UndoTarget)

(* C29: undo of a `store delete <label>` commit whose parent store does not *)
(* hold the label ends in a typed error or does nothing: the process is not *)
(* aborted and the item map is what it was.                                 *)
C29_UndoDeleteOfAbsentLabelIsHarmless ==
    [][ UndoDeleteOfAbsentStep =>
           /\ result' \in { "ok", "err" }
           /\ store'.items = store.items
      ]_vars

\* the plaintext an entry was stored with
StoredAs(entry) == entry.password.p

====
